---------------------------- MODULE Spec2Model ----------------------------
(***************************************************************************)
(* Model of the quiz-generation pipeline of app/routes/chatbot.py:         *)
(* generate_quiz (the request handler), clean_gemini_json (the sanitizer   *)
(* of the oracle's raw text) and create_quiz_internal (validation, time    *)
(* resolution and the store writes).                                       *)
(*                                                                         *)
(* Text is modelled at token level.  A raw oracle text is a sequence of    *)
(* the tokens                                                              *)
(*   "{" "}"   the brace characters                                        *)
(*   "a"       one scalar member of a JSON object ("key": value)           *)
(*   "k"       the key and colon of a member whose value is an object      *)
(*   ","       the comma between two members                               *)
(*   "(" ")"   the parenthesis characters                                  *)
(*   "F"       a triple-backtick fence                                     *)
(*   "J"       the language tag json, in any letter case                   *)
(*   "n" "s"   a newline and a blank                                       *)
(*   "t"       any other text                                              *)
(* Strings whose content is only measured (question texts, options) are    *)
(* modelled by their length.  Times are minutes; a timestamp is a wall     *)
(* clock reading together with its UTC offset.                             *)
(***************************************************************************)
EXTENDS Integers, Sequences, FiniteSets, TLC

VARIABLES
    pc,            \* position of the request in the handler
    mode,          \* "none" | "generate" (POST /generate) | "direct" (a call of create_quiz_internal)
    raw,           \* response.text of the oracle
    response_json, \* what clean_gemini_json returned (the parsed object)
    quiz_obj,      \* the QuizCreate object handed to create_quiz_internal
    times,         \* current_time, start_time, end_time of create_quiz_internal
    store,         \* the tables written through db.insert
    calls,         \* how often the oracle, the sanitizer and db.insert were invoked
    fault,         \* the db.insert that raised: its table, its place and the error text
    response,      \* the response or the error the caller receives
    san            \* the sanitizer exercised on its own: input and result

vars == <<pc, mode, raw, response_json, quiz_obj, times, store, calls,
          fault, response, san>>

None == "None"

(***************************************************************************)
(* Bounds of the model.                                                    *)
(***************************************************************************)
\* Longest text put before, and after, an embedded JSON object.
MaxSurround == 3
\* How many questions past a cap (20 on generation, 50 on creation) an input carries.
MaxOver == 2
\* Largest quiz duration, in minutes.
MaxDuration == 2
\* How many minutes past the earliest current time a supplied timestamp may lie.
MaxAhead == 3

(***************************************************************************)
(* Program constants.                                                      *)
(***************************************************************************)
MaxQuestionText == 500
MaxOptionLen == 200
MaxQuizQuestions == 50
GenerationCap == 20
\* pytz.timezone('Asia/Kolkata'): UTC+05:30, no daylight saving.
IST == 330

(***************************************************************************)
(* Generic helpers on sequences.                                           *)
(***************************************************************************)
SeqsUpTo(S, n) == UNION {[1..k -> S] : k \in 0..n}

Has(s, x) == \E i \in 1..Len(s) : s[i] = x

\* Python's  needle in haystack  on token sequences.
Contains(hay, needle) ==
    \E i \in 0..(Len(hay) - Len(needle)) :
        \A j \in 1..Len(needle) : hay[i + j] = needle[j]

(***************************************************************************)
(* clean_gemini_json                                                       *)
(***************************************************************************)
IsSpace(t) == t \in {"s", "n"}

RECURSIVE LStrip(_)
LStrip(s) == IF s # <<>> /\ IsSpace(Head(s)) THEN LStrip(Tail(s)) ELSE s

RECURSIVE RStrip(_)
RStrip(s) ==
    IF s # <<>> /\ IsSpace(s[Len(s)]) THEN RStrip(SubSeq(s, 1, Len(s) - 1)) ELSE s

\* str.strip()
Strip(s) == RStrip(LStrip(s))

\* ^ and $ under re.MULTILINE, at token i of s.
AtLineStart(s, i) == i = 1 \/ s[i - 1] = "n"
AtLineEnd(s, i) == i = Len(s) \/ s[i + 1] = "n"

\* Whether token i of s lies in a match of  ^```(?:json)?|```$ .
FenceHit(s, i) ==
    \/ s[i] = "F" /\ (AtLineStart(s, i) \/ AtLineEnd(s, i))
    \/ s[i] = "J" /\ i > 1 /\ s[i - 1] = "F" /\ AtLineStart(s, i - 1)

RECURSIVE DropFences(_, _)
DropFences(s, i) ==
    IF i > Len(s) THEN <<>>
    ELSE (IF FenceHit(s, i) THEN <<>> ELSE <<s[i]>>) \o DropFences(s, i + 1)

\* re.sub(r"^```(?:json)?|```$", "", cleaned, flags=IGNORECASE | MULTILINE)
StripFences(s) == DropFences(s, 1)

StripParens(s) ==
    IF s # <<>> /\ Head(s) = "(" /\ s[Len(s)] = ")"
    THEN Strip(SubSeq(s, 2, Len(s) - 1))
    ELSE s

FirstOpen(s) == CHOOSE i \in 1..Len(s) : s[i] = "{" /\ \A j \in 1..(i - 1) : s[j] # "{"
LastClose(s) == CHOOSE i \in 1..Len(s) : s[i] = "}" /\ \A j \in (i + 1)..Len(s) : s[j] # "}"
FirstCloseAfter(s, k) ==
    CHOOSE i \in (k + 1)..Len(s) : s[i] = "}" /\ \A j \in (k + 1)..(i - 1) : s[j] # "}"

\* A variant whose match is lazy: the first "}" after the first "{" ends it.
SearchBracesLazy(s) ==
    IF Has(s, "{") /\ (\E j \in (FirstOpen(s) + 1)..Len(s) : s[j] = "}")
    THEN [found |-> TRUE, text |-> SubSeq(s, FirstOpen(s), FirstCloseAfter(s, FirstOpen(s)))]
    ELSE [found |-> FALSE, text |-> <<>>]

\* re.search(r"\{.*\}", cleaned, re.DOTALL): from the first "{" to the last "}".
SearchBraces(s) ==
    IF Has(s, "{") /\ Has(s, "}") /\ FirstOpen(s) < LastClose(s)
    THEN [found |-> TRUE, text |-> SubSeq(s, FirstOpen(s), LastClose(s))]
    ELSE [found |-> FALSE, text |-> <<>>]

\* A parsed JSON object: its members in order, a scalar member or a nested object.
Leaf == [k |-> "a", c |-> <<>>]
Node(kids) == [k |-> "o", c |-> kids]
NoValue == [k |-> "none", c |-> <<>>]

RECURSIVE SkipSpace(_, _)
SkipSpace(s, i) == IF i <= Len(s) /\ IsSpace(s[i]) THEN SkipSpace(s, i + 1) ELSE i

\* The object whose "{" is token i of s: its members and the place after its "}".
RECURSIVE ParseObject(_, _)
\* The members of an object from token j, the start of a member, to its "}".
RECURSIVE ParseMembers(_, _)
ParseMembers(s, j) ==
    LET bad == [ok |-> FALSE, kids |-> <<>>, next |-> j]
        v == SkipSpace(s, j + 1)
        member ==
            IF j > Len(s) THEN [ok |-> FALSE, kid |-> Leaf, next |-> j]
            ELSE IF s[j] = "a" THEN [ok |-> TRUE, kid |-> Leaf, next |-> j + 1]
            ELSE IF s[j] = "k" /\ v <= Len(s) /\ s[v] = "{" /\ ParseObject(s, v).ok
            THEN [ok |-> TRUE, kid |-> Node(ParseObject(s, v).kids),
                  next |-> ParseObject(s, v).next]
            ELSE [ok |-> FALSE, kid |-> Leaf, next |-> j]
        e == SkipSpace(s, member.next)
    IN  IF ~member.ok \/ e > Len(s) THEN bad
        ELSE IF s[e] = "}" THEN [ok |-> TRUE, kids |-> <<member.kid>>, next |-> e + 1]
        ELSE IF s[e] = ","
        THEN LET rest == ParseMembers(s, SkipSpace(s, e + 1))
             IN  IF rest.ok THEN [rest EXCEPT !.kids = <<member.kid>> \o @] ELSE bad
        ELSE bad
ParseObject(s, i) ==
    LET j == SkipSpace(s, i + 1)
    IN  IF j <= Len(s) /\ s[j] = "}" THEN [ok |-> TRUE, kids |-> <<>>, next |-> j + 1]
        ELSE ParseMembers(s, j)

\* json.loads on a text: the object, or JSONDecodeError.
Loads(s) ==
    LET j == SkipSpace(s, 1)
    IN  IF j > Len(s) \/ s[j] # "{" THEN [ok |-> FALSE, value |-> NoValue]
        ELSE LET r == ParseObject(s, j)
             IN  IF r.ok /\ SkipSpace(s, r.next) > Len(s)
                 THEN [ok |-> TRUE, value |-> Node(r.kids)]
                 ELSE [ok |-> FALSE, value |-> NoValue]

\* The text of an object, as json.dumps writes it: compact, or one member per line.
RECURSIVE Dumps(_, _)
RECURSIVE DumpKids(_, _)
DumpKids(kids, pretty) ==
    (IF Head(kids).k = "a" THEN <<"a">>
     ELSE <<"k">> \o (IF pretty THEN <<"s">> ELSE <<>>) \o Dumps(Head(kids), pretty))
    \o (IF Tail(kids) = <<>> THEN <<>>
        ELSE <<",">> \o (IF pretty THEN <<"n">> ELSE <<>>) \o DumpKids(Tail(kids), pretty))
Dumps(obj, pretty) ==
    IF obj.c = <<>> THEN <<"{", "}">>
    ELSE <<"{">> \o (IF pretty THEN <<"n">> ELSE <<>>) \o DumpKids(obj.c, pretty)
         \o (IF pretty THEN <<"n">> ELSE <<>>) \o <<"}">>

clean_gemini_json(raw_text) ==
    LET cleaned == StripParens(Strip(StripFences(Strip(raw_text))))
        match == SearchBraces(cleaned)
    IN  IF ~match.found
        THEN [kind |-> "NoJsonFound", status |-> 400, value |-> NoValue, text |-> raw_text]
        ELSE IF Loads(match.text).ok
             THEN [kind |-> "ok", status |-> 200, value |-> Loads(match.text).value,
                   text |-> match.text]
             ELSE [kind |-> "MalformedJson", status |-> 400, value |-> NoValue,
                   text |-> match.text]


(***************************************************************************)
(* QuestionCreate and QuizCreate                                           *)
(***************************************************************************)
\* A question; each text field is modelled by its length.
Question(qt, a, b, c, d, correct) ==
    [question_text |-> qt, option_a |-> a, option_b |-> b, option_c |-> c,
     option_d |-> d, correct_option |-> correct]

\* QuestionCreate.validate_lengths: the message of the ValueError, or None.
validate_lengths(q) ==
    IF q.question_text > MaxQuestionText THEN "Question text cannot exceed 500 characters"
    ELSE IF q.option_a > MaxOptionLen THEN "Option A cannot exceed 200 characters"
    ELSE IF q.option_b > MaxOptionLen THEN "Option B cannot exceed 200 characters"
    ELSE IF q.option_c > MaxOptionLen THEN "Option C cannot exceed 200 characters"
    ELSE IF q.option_d > MaxOptionLen THEN "Option D cannot exceed 200 characters"
    ELSE IF q.correct_option \notin {"a", "b", "c", "d"}
         THEN "Correct option must be 'a', 'b', 'c', or 'd'"
    ELSE None

\* A timestamp field of QuizCreate (Optional[str]): null, the empty string, a
\* string that is no ISO timestamp, or an ISO timestamp with its UTC offset.
Null == [kind |-> "null", wall |-> 0, off |-> 0]
EmptyStr == [kind |-> "empty", wall |-> 0, off |-> 0]
BadStr == [kind |-> "bad", wall |-> 0, off |-> 0]
Iso(wall, off) == [kind |-> "iso", wall |-> wall, off |-> off]

\* Python's truth value of an Optional[str].
Truthy(t) == t.kind \notin {"null", "empty"}
\* The instant (UTC minutes) a timestamp denotes.
Instant(t) == t.wall - t.off
\* datetime.astimezone(tz)
astimezone(t, tz) == Iso(Instant(t) + tz, tz)
\* dt + timedelta(minutes=m)
PlusMinutes(t, m) == [t EXCEPT !.wall = @ + m]

(***************************************************************************)
(* create_quiz_internal: validation and time resolution                    *)
(***************************************************************************)
HTTPException(status, err, index, text) ==
    [class |-> "HTTPException", status |-> status, err |-> err, index |-> index,
     text |-> text]

NoError == [class |-> "none", status |-> 0, err |-> "none", index |-> 0, text |-> <<>>]

\* A variant that reports the last failing question instead of the first.
LastInvalid(questions) ==
    IF \E i \in 1..Len(questions) : validate_lengths(questions[i]) # None
    THEN CHOOSE i \in 1..Len(questions) :
            /\ validate_lengths(questions[i]) # None
            /\ \A j \in (i + 1)..Len(questions) : validate_lengths(questions[j]) = None
    ELSE 0

\* The for loop over enumerate(quiz_data.questions): the index (from 1) of the
\* question whose validate_lengths raises, 0 when none does.
FirstInvalid(questions) ==
    IF \E i \in 1..Len(questions) : validate_lengths(questions[i]) # None
    THEN CHOOSE i \in 1..Len(questions) :
            /\ validate_lengths(questions[i]) # None
            /\ \A j \in 1..(i - 1) : validate_lengths(questions[j]) = None
    ELSE 0

\* The checks made before current_time is read: the exception raised, or NoError.
ValidateQuiz(quiz_data) ==
    IF Len(quiz_data.questions) > MaxQuizQuestions
    THEN HTTPException(400, "ValidationError", 0, <<"Maximum 50 questions allowed per quiz">>)
    ELSE IF Len(quiz_data.questions) < 1
    THEN HTTPException(400, "ValidationError", 0, <<"At least 1 question is required">>)
    ELSE IF FirstInvalid(quiz_data.questions) # 0
    THEN HTTPException(400, "ValidationError", FirstInvalid(quiz_data.questions),
            <<validate_lengths(quiz_data.questions[FirstInvalid(quiz_data.questions)])>>)
    ELSE NoError

\* A variant that lets a quiz start at the very current time.
StartNotFutureStrict(start_dt, current_time) == Instant(start_dt) < Instant(current_time)

\* start_dt <= current_time, for a supplied start_time
StartNotFuture(start_dt, current_time) == Instant(start_dt) <= Instant(current_time)

\* A variant that never rejects a start derived from end_time.
DerivedStartUnchecked(start_dt, current_time) == FALSE

\* start_dt <= current_time, for the start derived from end_time
DerivedStartNotFuture(start_dt, current_time) == Instant(start_dt) <= Instant(current_time)

\* The time resolution: the exception raised (or NoError) and the pair stored.
ResolveTimes(quiz_data, current_time) ==
    LET fail(msg) == [exc |-> HTTPException(400, "InvalidSchedule", 0, <<msg>>),
                      start_time |-> Null, end_time |-> Null]
    IN  IF Truthy(quiz_data.start_time) THEN
            IF quiz_data.start_time.kind # "iso"
            THEN fail("Invalid start_time format. Use ISO format.")
            ELSE LET start_dt == astimezone(quiz_data.start_time, IST)
                 IN  IF StartNotFuture(start_dt, current_time)
                     THEN fail("Start time must be in the future for scheduled quizzes")
                     ELSE [exc |-> NoError, start_time |-> start_dt,
                           end_time |-> PlusMinutes(start_dt, quiz_data.duration)]
        ELSE IF Truthy(quiz_data.end_time) THEN
            IF quiz_data.end_time.kind # "iso"
            THEN fail("Invalid end_time format. Use ISO format.")
            ELSE LET end_dt == astimezone(quiz_data.end_time, IST)
                     start_dt == PlusMinutes(end_dt, 0 - quiz_data.duration)
                 IN  IF DerivedStartNotFuture(start_dt, current_time)
                     THEN fail("Quiz duration too long for the specified end time")
                     ELSE [exc |-> NoError, start_time |-> start_dt, end_time |-> end_dt]
        ELSE [exc |-> NoError, start_time |-> Null, end_time |-> Null]

\* str.lower() on the words of a store error text.
Lower(msg) ==
    [i \in 1..Len(msg) |->
        CASE msg[i] = "UNIQUE" -> "unique"
          [] msg[i] = "Duplicate" -> "duplicate"
          [] OTHER -> msg[i]]

\* A variant that matches the word duplicate alone, in any letter case.
IsDuplicateLoose(error_msg) ==
    Contains(Lower(error_msg), <<"duplicate">>) \/ Contains(Lower(error_msg), <<"unique">>)

\* "duplicate key value" in error_msg or "unique" in error_msg.lower()
IsDuplicate(error_msg) ==
    \/ Contains(error_msg, <<"duplicate", "key", "value">>)
    \/ Contains(Lower(error_msg), <<"unique">>)

\* The  except Exception as e  clause of create_quiz_internal.
StoreFailure(error_msg) ==
    IF IsDuplicate(error_msg)
    THEN HTTPException(400, "DuplicateTitle", 0,
            <<"A quiz with this title already exists. Please choose a different title.">>)
    ELSE HTTPException(400, "PersistenceError", 0, <<"Failed to create quiz:">> \o error_msg)


(***************************************************************************)
(* The inputs of the model                                                 *)
(***************************************************************************)
\* Question i of a well-formed quiz: its text is i characters long, the options
\* are as long as allowed.
GoodQuestion(i) == Question(i, MaxOptionLen, MaxOptionLen, MaxOptionLen, MaxOptionLen, "a")

\* Questions that break one or several of the constraints.
BadQuestions ==
    { Question(MaxQuestionText + 1, 1, 1, 1, 1, "a"),
      Question(MaxQuestionText, 1, MaxOptionLen + 1, 1, 1, "b"),
      Question(1, 1, 1, 1, MaxOptionLen + 1, "e"),
      Question(1, 1, 1, 1, 1, "A") }

\* Where the invalid questions of a list of n sit: nowhere, at one place, or at
\* one place and at the end.
BadPlaces(n) == {{}} \cup {{p} : p \in 1..n} \cup {{p, n} : p \in 1..n}

QuestionList(n, places, bq) ==
    [i \in 1..n |->
        IF i \notin places THEN GoodQuestion(i)
        ELSE IF \A j \in places : i <= j THEN bq
        ELSE Question(1, 1, 1, 1, 1, "")]

QuestionLists(counts) ==
    UNION {{QuestionList(n, places, bq) : places \in BadPlaces(n), bq \in BadQuestions} :
           n \in counts}

\* The instants (UTC minutes) current_time may show.
Nows == {10, 11}

Durations == {0 - 1} \cup (0..MaxDuration)

TimeInputs ==
    {Null, EmptyStr, BadStr}
        \cup {Iso(i + off, off) : i \in 9..(10 + MaxAhead), off \in {0, IST}}

Absent == "Absent"

QuizFields(title, start_time, end_time, duration, positive_mark, questions) ==
    [title |-> title, start_time |-> start_time, end_time |-> end_time,
     duration |-> duration, positive_mark |-> positive_mark, negative_mark |-> 0,
     questions |-> questions]

\* Quizzes that differ in their schedule.
ScheduledQuizzes ==
    {QuizFields("Cars", st, et, d, 1, <<GoodQuestion(1)>>) :
        st \in TimeInputs, et \in TimeInputs, d \in Durations}

\* Quizzes that differ in their questions; a correct answer is worth 2.
QuestionedQuizzes(counts) ==
    {QuizFields("Cars", Null, Null, 1, 2, qs) : qs \in QuestionLists(counts)}

\* The QuizCreate objects create_quiz_internal is called with directly: the
\* question counts lie around the two ends of the allowed range.
DirectQuizzes ==
    ScheduledQuizzes
        \cup QuestionedQuizzes((0..MaxOver)
                \cup ((MaxQuizQuestions - MaxOver)..(MaxQuizQuestions + MaxOver)))

\* The object the oracle's text carries: the intent, the message and the
\* remaining fields.  A missing title stands for every missing or mistyped
\* field of QuizCreate.
Payload(intent, message, quiz) == [intent |-> intent, message |-> message, quiz |-> quiz]

PlainQuiz == QuizFields("Cars", Null, Null, 1, 1, <<GoodQuestion(1)>>)

QuizPayloads ==
    {Payload("quiz_creation", Absent, q) :
        q \in ScheduledQuizzes \cup QuestionedQuizzes(0..(GenerationCap + MaxOver))
              \cup {[PlainQuiz EXCEPT !.title = Absent]}}

OtherPayloads ==
    {Payload(i, m, q) : i \in {"non_quiz", "chat", Absent}, m \in {Absent, "Describe a quiz"},
                        q \in {PlainQuiz, [PlainQuiz EXCEPT !.title = Absent]}}

\* The text the prompt asks for: a JSON object, here inside a json fence.
FencedText == <<"F", "J", "n", "{", "a", ",", "k", "{", "a", "}", "}", "n", "F">>

\* Other texts with an object in them.
ObjectTexts ==
    { <<"{", "a", "}">>,
      <<"(", "{", "a", "}", ")">>,
      <<"t", "n", "F", "n", "{", "n", "a", "n", "}", "n", "F", "n", "t">> }

\* Texts with no object in them: no braces, braces in the wrong order, an
\* unclosed object, text between the braces, a missing comma.
BrokenTexts ==
    { <<"t">>, <<"}", "{">>, <<"{", "a">>, <<"{", "t", "}">>, <<"{", "a", "a", "}">>,
      <<"t", "{", "t", "}", "{", "a", "}">> }

\* What the oracle may return: its text and the object that text carries.
OracleOutputs ==
    {[text |-> FencedText, payload |-> p] : p \in QuizPayloads \cup OtherPayloads}
        \cup {[text |-> t, payload |-> p] :
                t \in ObjectTexts,
                p \in OtherPayloads \cup {Payload("quiz_creation", Absent, PlainQuiz)}}
        \cup {[text |-> t, payload |-> Payload(Absent, Absent, PlainQuiz)] :
                t \in BrokenTexts \cup {<<>>}}

\* The error texts of a failing db.insert.
StoreErrors ==
    { <<"duplicate", "key", "value", "violates", "unique", "constraint">>,
      <<"duplicate", "key", "value">>,
      <<"UNIQUE", "constraint", "failed">>,
      <<"duplicate", "entry">>,
      <<"Duplicate", "key", "value">>,
      <<"connection", "timeout">> }


(***************************************************************************)
(* The state after construction                                            *)
(***************************************************************************)
Unparsed == Payload("unparsed", Absent, PlainQuiz)
NoQuiz == QuizFields("", Null, Null, 0, 0, <<>>)
NoFault == [table |-> "none", at |-> 0, msg |-> <<>>]
NoResponse == [status |-> 0, outcome |-> "none", body |-> [kind |-> "none"]]
NoSan == [prefix |-> <<>>, obj |-> NoValue, pretty |-> FALSE, suffix |-> <<>>,
          result |-> [kind |-> "unset", status |-> 0, value |-> NoValue, text |-> <<>>]]

Init ==
    /\ pc = "idle"
    /\ mode = "none"
    /\ raw = [text |-> <<>>, payload |-> Unparsed]
    /\ response_json = Unparsed
    /\ quiz_obj = NoQuiz
    /\ times = [now |-> 0, start_time |-> Null, end_time |-> Null]
    /\ store = [quizzes |-> <<>>, questions |-> <<>>]
    /\ calls = [oracle |-> 0, sanitize |-> 0, quiz_insert |-> 0, question_insert |-> 0]
    /\ fault = NoFault
    /\ response = NoResponse
    /\ san = NoSan

(***************************************************************************)
(* generate_quiz                                                           *)
(***************************************************************************)
\* The except clauses of generate_quiz: the HTTPException that leaves it.
GenerateHandler(exc) ==
    IF exc.class = "HTTPException" THEN exc
    ELSE IF exc.class = "JSONDecodeError"
    THEN HTTPException(400, exc.err, 0, <<"Failed to parse AI response as JSON:">> \o exc.text)
    ELSE HTTPException(500, exc.err, 0, <<"Quiz generation failed:">> \o exc.text)

\* The exception the caller of the running operation receives.
Leave(exc) == IF mode = "generate" THEN GenerateHandler(exc) ELSE exc

\* The error response of an HTTPException.
Fail(exc) ==
    /\ response' = [status |-> exc.status, outcome |-> "Failed",
                    body |-> [kind |-> "error", err |-> exc.err, index |-> exc.index,
                              text |-> exc.text]]
    /\ pc' = "done"

\* The prompt is composed from the template, the current time and the request.
ComposePrompt ==
    /\ pc = "idle"
    /\ mode' = "generate"
    /\ pc' = "composed"
    /\ UNCHANGED <<raw, response_json, quiz_obj, times, store, calls, fault, response, san>>

\* client.models.generate_content returns.
OracleReturns ==
    /\ pc = "composed"
    /\ \E out \in OracleOutputs : raw' = out
    /\ calls' = [calls EXCEPT !.oracle = @ + 1]
    /\ pc' = "oracle_returned"
    /\ UNCHANGED <<mode, response_json, quiz_obj, times, store, fault, response, san>>

\* A variant that calls the oracle again after it raised.
OracleRaisesRetry ==
    /\ pc = "composed"
    /\ calls.oracle < 2
    /\ calls' = [calls EXCEPT !.oracle = @ + 1]
    /\ UNCHANGED <<pc, mode, raw, response_json, quiz_obj, times, store, fault, response, san>>

\* client.models.generate_content raises.
OracleRaises ==
    /\ pc = "composed"
    /\ calls' = [calls EXCEPT !.oracle = @ + 1]
    /\ Fail(GenerateHandler([class |-> "Exception", status |-> 0, err |-> "OracleError",
                             index |-> 0, text |-> <<"oracle unavailable">>]))
    /\ UNCHANGED <<mode, raw, response_json, quiz_obj, times, store, fault, san>>

\* The check for an empty text and the call of clean_gemini_json.
Sanitize ==
    /\ pc = "oracle_returned"
    /\ IF raw.text = <<>>
       THEN /\ Fail(GenerateHandler(
                    HTTPException(500, "EmptyResponse", 0, <<"Gemini returned empty response">>)))
            /\ UNCHANGED <<response_json, calls>>
       ELSE /\ calls' = [calls EXCEPT !.sanitize = @ + 1]
            /\ LET r == clean_gemini_json(raw.text)
               IN  IF r.kind = "ok"
                   THEN /\ response_json' = raw.payload
                        /\ pc' = "sanitized"
                        /\ UNCHANGED response
                   ELSE /\ Fail(GenerateHandler(HTTPException(r.status, r.kind, 0, r.text)))
                        /\ UNCHANGED response_json
    /\ UNCHANGED <<mode, raw, quiz_obj, times, store, fault, san>>

\* A variant that takes everything but non_quiz for a quiz request.
IsQuizCreationLoose(rj) == rj.intent # "non_quiz"

\* response_json.get("intent") == "quiz_creation"
IsQuizCreation(rj) == rj.intent = "quiz_creation"

\* A variant that hands every parsed question on.
TruncateNever(questions) == questions

\* quiz_obj.questions[:20] when there are more than 20
Truncate(questions) ==
    IF Len(questions) > GenerationCap THEN SubSeq(questions, 1, GenerationCap) ELSE questions

FallbackMessage == "I'm a Quiz Creation Bot. Please describe the quiz you want to create."
UnclearMessage == "I'm a Quiz Creation Bot. I can only help you create quizzes."

Rejected(intent, message) ==
    [status |-> 200, outcome |-> "Rejected",
     body |-> [kind |-> "rejected", success |-> FALSE, intent |-> intent,
               message |-> message, is_quiz_request |-> FALSE]]

\* The dispatch on the intent, QuizCreate(**quiz_data) and the clamp of the questions.
Route ==
    /\ pc = "sanitized"
    /\ IF response_json.intent = "non_quiz"
       THEN /\ response' = Rejected("non_quiz",
                    IF response_json.message = Absent THEN FallbackMessage
                    ELSE response_json.message)
            /\ pc' = "done"
            /\ UNCHANGED quiz_obj
       ELSE IF IsQuizCreation(response_json)
       THEN IF response_json.quiz.title = Absent
            THEN /\ Fail(GenerateHandler([class |-> "ValidationError", status |-> 0,
                            err |-> "SchemaError", index |-> 0,
                            text |-> <<"1 validation error for QuizCreate">>]))
                 /\ UNCHANGED quiz_obj
            ELSE IF Len(response_json.quiz.questions) < 1
            THEN /\ Fail(GenerateHandler(
                        HTTPException(400, "EmptyQuiz", 0, <<"Quiz must have at least 1 question">>)))
                 /\ UNCHANGED quiz_obj
            ELSE /\ quiz_obj' = [response_json.quiz EXCEPT !.questions = Truncate(@)]
                 /\ pc' = "create"
                 /\ UNCHANGED response
       ELSE /\ response' = Rejected("unclear", UnclearMessage)
            /\ pc' = "done"
            /\ UNCHANGED quiz_obj
    /\ UNCHANGED <<mode, raw, response_json, times, store, calls, fault, san>>

(***************************************************************************)
(* create_quiz_internal                                                    *)
(***************************************************************************)
\* create_quiz_internal called on its own with a QuizCreate object.
CallDirect ==
    /\ pc = "idle"
    /\ mode' = "direct"
    /\ \E q \in DirectQuizzes : quiz_obj' = q
    /\ pc' = "create"
    /\ UNCHANGED <<raw, response_json, times, store, calls, fault, response, san>>

\* The checks of the question count and of every question.
Validate ==
    /\ pc = "create"
    /\ IF ValidateQuiz(quiz_obj) # NoError
       THEN Fail(Leave(ValidateQuiz(quiz_obj)))
       ELSE pc' = "validated" /\ UNCHANGED response
    /\ UNCHANGED <<mode, raw, response_json, quiz_obj, times, store, calls, fault, san>>

\* current_time is read and start_time and end_time are resolved.
Resolve ==
    /\ pc = "validated"
    /\ \E now \in Nows :
        LET r == ResolveTimes(quiz_obj, Iso(now + IST, IST))
        IN  /\ times' = [now |-> now, start_time |-> r.start_time, end_time |-> r.end_time]
            /\ IF r.exc # NoError
               THEN Fail(Leave(r.exc))
               ELSE pc' = "resolved" /\ UNCHANGED response
    /\ UNCHANGED <<mode, raw, response_json, quiz_obj, store, calls, fault, san>>

NewId == "quiz-1"

QuizRecord ==
    [id |-> NewId, title |-> quiz_obj.title, start_time |-> times.start_time,
     end_time |-> times.end_time, duration |-> quiz_obj.duration,
     positive_mark |-> quiz_obj.positive_mark, negative_mark |-> quiz_obj.negative_mark]

\* The record of one question: the quiz identifier, the question, the mark.
QuestionRecord(created_quiz, question_data) ==
    [quiz_id |-> created_quiz.id, question |-> question_data, mark |-> quiz_obj.positive_mark]

\* db.insert("quizzes", quiz) returns.
InsertQuiz ==
    /\ pc = "resolved"
    /\ calls' = [calls EXCEPT !.quiz_insert = @ + 1]
    /\ store' = [store EXCEPT !.quizzes = Append(@, QuizRecord)]
    /\ pc' = "inserting"
    /\ UNCHANGED <<mode, raw, response_json, quiz_obj, times, fault, response, san>>

\* db.insert("quizzes", quiz) raises.
InsertQuizFails ==
    /\ pc = "resolved"
    /\ calls' = [calls EXCEPT !.quiz_insert = @ + 1]
    /\ \E msg \in StoreErrors :
        /\ fault' = [table |-> "quizzes", at |-> 0, msg |-> msg]
        /\ Fail(Leave(StoreFailure(msg)))
    /\ UNCHANGED <<mode, raw, response_json, quiz_obj, times, store, san>>

\* db.insert("questions", question) returns, for the next question of the loop.
InsertQuestion ==
    /\ pc = "inserting"
    /\ Len(store.questions) < Len(quiz_obj.questions)
    /\ calls' = [calls EXCEPT !.question_insert = @ + 1]
    /\ store' = [store EXCEPT !.questions =
                    Append(@, QuestionRecord(store.quizzes[1],
                                             quiz_obj.questions[Len(store.questions) + 1]))]
    /\ UNCHANGED <<pc, mode, raw, response_json, quiz_obj, times, fault, response, san>>

\* A variant that deletes what was written when a question insert raises.
InsertQuestionFailsRollback ==
    /\ pc = "inserting"
    /\ Len(store.questions) < Len(quiz_obj.questions)
    /\ calls' = [calls EXCEPT !.question_insert = @ + 1]
    /\ store' = [quizzes |-> <<>>, questions |-> <<>>]
    /\ \E msg \in StoreErrors :
        /\ fault' = [table |-> "questions", at |-> Len(store.questions) + 1, msg |-> msg]
        /\ Fail(Leave(StoreFailure(msg)))
    /\ UNCHANGED <<mode, raw, response_json, quiz_obj, times, san>>

\* db.insert("questions", question) raises, for the next question of the loop.
InsertQuestionFails ==
    /\ pc = "inserting"
    /\ Len(store.questions) < Len(quiz_obj.questions)
    /\ calls' = [calls EXCEPT !.question_insert = @ + 1]
    /\ \E msg \in StoreErrors :
        /\ fault' = [table |-> "questions", at |-> Len(store.questions) + 1, msg |-> msg]
        /\ Fail(Leave(StoreFailure(msg)))
    /\ UNCHANGED <<mode, raw, response_json, quiz_obj, times, store, san>>

\* create_quiz_internal returns; generate_quiz answers with the success response.
ReturnResult ==
    /\ pc = "inserting"
    /\ Len(store.questions) = Len(quiz_obj.questions)
    /\ response' =
        IF mode = "generate"
        THEN [status |-> 200, outcome |-> "Persisted",
              body |-> [kind |-> "created", success |-> TRUE, intent |-> "quiz_creation",
                        quiz_id |-> store.quizzes[1].id, quiz_title |-> store.quizzes[1].title,
                        questions_generated |-> Len(quiz_obj.questions),
                        is_quiz_request |-> TRUE]]
        ELSE [status |-> 200, outcome |-> "Persisted",
              body |-> [kind |-> "result", quiz_id |-> store.quizzes[1].id,
                        title |-> store.quizzes[1].title]]
    /\ pc' = "done"
    /\ UNCHANGED <<mode, raw, response_json, quiz_obj, times, store, calls, fault, san>>

Next ==
    \/ ComposePrompt
    \/ OracleReturns
    \/ OracleRaises
    \/ Sanitize
    \/ Route
    \/ CallDirect
    \/ Validate
    \/ Resolve
    \/ InsertQuiz
    \/ InsertQuizFails
    \/ InsertQuestion
    \/ InsertQuestionFails
    \/ ReturnResult

Spec == Init /\ [][Next]_vars

(***************************************************************************)
(* The sanitizer on its own: a JSON object embedded in surrounding text    *)
(***************************************************************************)
SurroundTokens == {"{", "}", "(", ")", "F", "J", "n", "t"}

\* The texts before and after the object: together at most MaxSurround tokens.
Surroundings ==
    UNION {[1..k -> SurroundTokens] \X SeqsUpTo(SurroundTokens, MaxSurround - k) :
           k \in 0..MaxSurround}

Objects ==
    { Node(<<>>), Node(<<Leaf>>), Node(<<Leaf, Node(<<Leaf>>)>>), Node(<<Node(<<>>), Leaf>>) }

SanitizeEmbedded ==
    /\ san = NoSan
    /\ \E pair \in Surroundings, obj \in Objects, pretty \in BOOLEAN :
        san' = [prefix |-> pair[1], obj |-> obj, pretty |-> pretty, suffix |-> pair[2],
                result |-> clean_gemini_json(pair[1] \o Dumps(obj, pretty) \o pair[2])]
    /\ UNCHANGED <<pc, mode, raw, response_json, quiz_obj, times, store, calls, fault, response>>

SanNext == SanitizeEmbedded

SanSpec == Init /\ [][SanNext]_vars


(***************************************************************************)
(* Properties                                                              *)
(***************************************************************************)
Done == pc = "done"

\* No db.insert was attempted and the tables are empty.
NoWrites ==
    /\ store.quizzes = <<>>
    /\ store.questions = <<>>
    /\ calls.quiz_insert = 0
    /\ calls.question_insert = 0

\* clean_gemini_json returned an object.
Sanitized == response_json # Unparsed

\* C1: a request whose sanitized oracle response has an intent other than
\* quiz_creation (non_quiz, another value, no intent) never reaches
\* create_quiz_internal, performs no store insert, and ends with the response
\* success = false, is_quiz_request = false.
C1_OtherIntentRejected ==
    (mode = "generate" /\ Sanitized /\ response_json.intent # "quiz_creation") =>
        /\ NoWrites
        /\ pc \in {"sanitized", "done"}
        /\ Done => /\ response.outcome = "Rejected"
                   /\ response.body.success = FALSE
                   /\ response.body.is_quiz_request = FALSE

C1_Witness ==
    /\ Done
    /\ Sanitized
    /\ response_json.intent = Absent
    /\ response.outcome = "Rejected"
    /\ response.body.intent = "unclear"

DomainErrors ==
    {"NoJsonFound", "MalformedJson", "SchemaError", "EmptyQuiz", "InvalidSchedule",
     "ValidationError", "DuplicateTitle", "PersistenceError"}

\* C2: every domain error of the generate pipeline reaches the caller as a
\* 4xx response; a 500 is the answer only to an oracle failure, an empty
\* oracle response or an unclassified failure.
C2_DomainErrorsAre4xx ==
    (mode = "generate" /\ Done /\ response.outcome = "Failed") =>
        /\ response.body.err \in DomainErrors => response.status \in 400..499
        /\ response.status = 500 => response.body.err \in {"OracleError", "EmptyResponse"}

\* create_quiz_internal read current_time.
TimeRead == times.now # 0

\* C3: for a quiz with an ISO start_time, once current_time is read: a start
\* strictly later than current_time is stored with end_time = start_time +
\* duration minutes, in the fixed timezone (or the quiz insert itself failed); a
\* start at or before current_time ends the call with InvalidSchedule (400) and
\* nothing is written.
C3_StartDecidesSchedule ==
    (TimeRead /\ quiz_obj.start_time.kind = "iso") =>
        IF Instant(quiz_obj.start_time) > times.now
        THEN /\ \A i \in 1..Len(store.quizzes) :
                    /\ store.quizzes[i].end_time.kind = "iso"
                    /\ store.quizzes[i].end_time.off = IST
                    /\ Instant(store.quizzes[i].end_time) =
                            Instant(quiz_obj.start_time) + quiz_obj.duration
             /\ Done => Len(store.quizzes) = 1 \/ fault.table = "quizzes"
        ELSE /\ Done
             /\ response.status = 400
             /\ response.body.err = "InvalidSchedule"
             /\ NoWrites

C3_Witness ==
    /\ Done
    /\ response.outcome = "Persisted"
    /\ quiz_obj.start_time.kind = "iso"
    /\ quiz_obj.start_time.off = 0
    /\ quiz_obj.duration = 2
    /\ Len(store.quizzes) = 1
    /\ store.quizzes[1].end_time.wall = quiz_obj.start_time.wall + IST + 2

\* The sanitizer returned exactly the embedded object.
RoundTrip == san.result.kind = "ok" /\ san.result.value = san.obj

\* C4 as stated: whatever text surrounds a well-formed JSON object, braces
\* included, clean_gemini_json returns exactly that object.
C4_RoundTripAnySurrounding == san # NoSan => RoundTrip

\* C4, amended: clean_gemini_json returns exactly the embedded object when the
\* text before it holds no "{" and the text after it holds no "}".
C4_RoundTripNoStrayBrace ==
    (san # NoSan /\ ~Has(san.prefix, "{") /\ ~Has(san.suffix, "}")) => RoundTrip

C4_Witness ==
    /\ san # NoSan
    /\ san.prefix = <<"F", "J">>
    /\ san.suffix = <<"F">>
    /\ san.obj = Node(<<Leaf, Node(<<Leaf>>)>>)
    /\ RoundTrip

\* C5: with intent quiz_creation and n parsed questions: n = 0 ends with
\* EmptyQuiz (400) and no write; otherwise the first min(n, 20) questions, in
\* their order, are what create_quiz_internal receives, and a success response
\* reports questions_generated = min(n, 20).  No request writes more than 20
\* question records.
C5_QuestionClamp ==
    mode = "generate" =>
        /\ Len(store.questions) <= 20
        /\ calls.question_insert <= 20
        /\ (Sanitized /\ response_json.intent = "quiz_creation"
                /\ response_json.quiz.title # Absent /\ pc # "sanitized") =>
            LET parsed == response_json.quiz.questions
                n == Len(parsed)
            IN  /\ n = 0 => /\ Done
                            /\ response.status = 400
                            /\ response.body.err = "EmptyQuiz"
                            /\ NoWrites
                /\ n > 0 => quiz_obj.questions = SubSeq(parsed, 1, IF n > 20 THEN 20 ELSE n)
                /\ response.outcome = "Persisted" =>
                        /\ response.body.questions_generated = (IF n > 20 THEN 20 ELSE n)
                        /\ Len(store.questions) = response.body.questions_generated

C5_Witness ==
    /\ mode = "generate"
    /\ response.outcome = "Persisted"
    /\ Len(response_json.quiz.questions) > 20
    /\ response.body.questions_generated = 20
    /\ Len(store.questions) = 20

\* A db.insert of the call raised.
StoreFailed == Done /\ fault.table # "none"

\* C6 as stated: a failing store insert ends in DuplicateTitle when the error
\* text contains "duplicate" or "unique", and in PersistenceError with the
\* store's message in the detail otherwise.
C6_DuplicateOrUniqueText ==
    StoreFailed =>
        IF Has(fault.msg, "duplicate") \/ Has(fault.msg, "unique")
        THEN response.body.err = "DuplicateTitle"
        ELSE response.body.err = "PersistenceError" /\ Contains(response.body.text, fault.msg)

\* C6, amended: a failing store insert ends in DuplicateTitle (400) when the
\* error text contains "duplicate key value" or, in any letter case, "unique",
\* and in PersistenceError (400) with the store's message in the detail
\* otherwise.
C6_StoreFailureClassified ==
    StoreFailed =>
        /\ response.status = 400
        /\ IF \/ \E i \in 1..(Len(fault.msg) - 2) :
                    /\ fault.msg[i] = "duplicate"
                    /\ fault.msg[i + 1] = "key"
                    /\ fault.msg[i + 2] = "value"
              \/ Has(fault.msg, "unique") \/ Has(fault.msg, "UNIQUE")
           THEN response.body.err = "DuplicateTitle"
           ELSE /\ response.body.err = "PersistenceError"
                /\ Contains(response.body.text, fault.msg)

C6_Witness ==
    /\ StoreFailed
    /\ fault.table = "questions"
    /\ fault.msg = <<"duplicate", "entry">>
    /\ response.body.err = "PersistenceError"

\* C7: along a generate_quiz request the oracle is called once and never
\* again, the sanitizer runs at most once, at most one quiz insert is
\* attempted, no response exists before the request ends, and a request
\* that ended has one terminal outcome that fits what was written.
C7_OneAttemptEach ==
    mode = "generate" =>
        /\ calls.oracle = (IF pc = "composed" THEN 0 ELSE 1)
        /\ calls.sanitize <= 1
        /\ calls.quiz_insert <= 1
        /\ ~Done => response = NoResponse
        /\ Done =>
            /\ response.outcome \in {"Persisted", "Rejected", "Failed"}
            /\ response.outcome = "Persisted" =>
                    /\ response.status = 200
                    /\ calls.sanitize = 1
                    /\ calls.quiz_insert = 1
                    /\ Len(store.quizzes) = 1
            /\ response.outcome = "Rejected" => response.status = 200 /\ NoWrites
            /\ response.outcome = "Failed" => response.status \in {400, 500}

C7_Witness ==
    /\ mode = "generate"
    /\ Done
    /\ response.outcome = "Failed"
    /\ fault.table = "quizzes"
    /\ calls.oracle = 1
    /\ calls.sanitize = 1
    /\ calls.quiz_insert = 1

\* C8: every quiz record written has start_time and end_time both absent or
\* both present; when present both are in the fixed timezone, end_time =
\* start_time + duration minutes and start_time is strictly later than the
\* current time the call read.  A supplied start decides the pair (a supplied
\* end is then ignored), else a supplied end does, else both stay absent.
C8_StoredSchedule ==
    \A i \in 1..Len(store.quizzes) :
        LET q == store.quizzes[i]
        IN  /\ \/ q.start_time = Null /\ q.end_time = Null
               \/ /\ q.start_time.kind = "iso" /\ q.end_time.kind = "iso"
                  /\ q.start_time.off = IST /\ q.end_time.off = IST
                  /\ q.end_time.wall = q.start_time.wall + q.duration
                  /\ Instant(q.start_time) > times.now
                  /\ TimeRead
            /\ IF quiz_obj.start_time.kind \notin {"null", "empty"}
               THEN Instant(q.start_time) = Instant(quiz_obj.start_time)
               ELSE IF quiz_obj.end_time.kind \notin {"null", "empty"}
               THEN Instant(q.end_time) = Instant(quiz_obj.end_time)
               ELSE q.start_time = Null /\ q.end_time = Null

C8_Witness ==
    /\ Len(store.quizzes) = 1
    /\ quiz_obj.start_time.kind = "iso"
    /\ quiz_obj.end_time.kind = "iso"
    /\ Instant(store.quizzes[1].end_time) # Instant(quiz_obj.end_time)
    /\ Instant(store.quizzes[1].end_time) =
            Instant(store.quizzes[1].start_time) + quiz_obj.duration

\* The places of the questions of quiz_obj that break a constraint.
InvalidPlaces ==
    {i \in 1..Len(quiz_obj.questions) :
        \/ quiz_obj.questions[i].question_text > 500
        \/ quiz_obj.questions[i].option_a > 200
        \/ quiz_obj.questions[i].option_b > 200
        \/ quiz_obj.questions[i].option_c > 200
        \/ quiz_obj.questions[i].option_d > 200
        \/ quiz_obj.questions[i].correct_option \notin {"a", "b", "c", "d"}}

\* C9: when create_quiz_internal is called with a question count outside
\* 1..50 or with an invalid question, it fails with 400 before any store
\* write; with the count in 1..50 the error names the lowest place (from 1)
\* of an invalid question.
C9_ValidatedBeforeWrites ==
    (quiz_obj # NoQuiz /\ (Len(quiz_obj.questions) \notin 1..50 \/ InvalidPlaces # {})) =>
        /\ NoWrites
        /\ pc \in {"create", "done"}
        /\ Done =>
            /\ response.outcome = "Failed"
            /\ response.status = 400
            /\ response.body.err = "ValidationError"
            /\ Len(quiz_obj.questions) \in 1..50 =>
                    /\ response.body.index \in InvalidPlaces
                    /\ \A j \in InvalidPlaces : response.body.index <= j

C9_Witness ==
    /\ Done
    /\ Len(quiz_obj.questions) \in 1..50
    /\ Cardinality(InvalidPlaces) = 2
    /\ response.body.err = "ValidationError"
    /\ response.body.index = 2
    /\ response.body.index < Len(quiz_obj.questions)

C10_Written ==
    /\ Len(store.quizzes) <= 1
    /\ store.questions # <<>> => Len(store.quizzes) = 1
    /\ Len(store.questions) <= Len(quiz_obj.questions)
    /\ \A i \in 1..Len(store.questions) :
            /\ store.questions[i].quiz_id = store.quizzes[1].id
            /\ store.questions[i].question = quiz_obj.questions[i]
            /\ store.questions[i].mark = quiz_obj.positive_mark
    /\ fault.table = "questions" =>
            /\ Done
            /\ response.outcome = "Failed"
            /\ Len(store.quizzes) = 1
            /\ Len(store.questions) = fault.at - 1
            /\ calls.question_insert = fault.at
    /\ response.outcome = "Persisted" =>
            /\ Len(store.quizzes) = 1
            /\ Len(store.questions) = Len(quiz_obj.questions)
            /\ fault = NoFault

\* A step removes no record and writes at most one, a question only after the quiz.
C10_Step ==
    /\ SubSeq(store'.quizzes, 1, Len(store.quizzes)) = store.quizzes
    /\ SubSeq(store'.questions, 1, Len(store.questions)) = store.questions
    /\ Len(store'.quizzes) >= Len(store.quizzes)
    /\ Len(store'.questions) >= Len(store.questions)
    /\ Len(store'.questions) > Len(store.questions) =>
            Len(store'.questions) = Len(store.questions) + 1 /\ store.quizzes # <<>>

\* C10: the quiz record is written first, then the question records one by
\* one in sequence order, each tagged with the quiz identifier and the
\* positive mark; when the insert of question k fails the store keeps the quiz
\* record and the first k-1 question records, nothing is deleted, no further
\* question is written and the request ends with an error; success is
\* answered only after the quiz and all its questions were written.
C10_WritesInOrderNoRollback == []C10_Written /\ [][C10_Step]_vars

C10_Witness ==
    /\ Done
    /\ response.outcome = "Failed"
    /\ fault.table = "questions"
    /\ fault.at = 3
    /\ Len(store.quizzes) = 1
    /\ Len(store.questions) = 2
    /\ Len(quiz_obj.questions) > 3

=============================================================================
